---- MODULE Spec2Model ----
(***************************************************************************)
(* A model of the PDF question-answering pipeline: the ingestion script    *)
(* (src/src/ingest.py), the query function (src/src/search.py) and the     *)
(* interactive loop (src/src/chat.py).  One script runs at a time against  *)
(* one persistent vector-store collection.  The PDF loader, the text       *)
(* splitter, the embedding provider, the vector store and the language     *)
(* model are external services: what they return is a nondeterministic     *)
(* choice, and each of their calls may raise.                              *)
(***************************************************************************)
EXTENDS Naturals, Sequences, FiniteSets, TLC

VARIABLES
    env,                \* os.environ of the running script, after load_dotenv()
    prog,               \* the script run as __main__: "none", "ingest", "search", "chat"
    pc,                 \* the statement the script is at
    vi,                 \* position of the validation loop in REQUIRED_ENV_VARS
    calls,              \* names of the pipeline calls this script has made
    outcome,            \* how the script ended
    nlaunch,            \* scripts started so far
    chunks,             \* ingest_pdf: chunks
    enriched_chunks,    \* ingest_pdf: enriched_chunks
    chunk_ids,          \* ingest_pdf: chunk_ids
    ingest_ret,         \* ingest_pdf: the value returned, "unset" before the return
    write_args,         \* the arguments of this script's add_documents call
    reenriched,         \* the cleaning transform applied to enriched_chunks again
    store,              \* the collection: identifier -> stored document
    latest,             \* index i -> i-th chunk of the latest successful run longer than i
    user_question,      \* chat main / search_prompt: user_question
    eof,                \* standard input is exhausted
    reads,              \* lines read from standard input by this script
    out,                \* the last thing printed by chat main
    ncalls,             \* search_prompt invocations since the last line was read
    stages,             \* stages search_prompt has run in its current invocation
    sp_has,             \* search_prompt: the locals bound so far
    similarity_results, \* search_prompt: similarity_results
    context,            \* search_prompt: context
    prompt,             \* search_prompt: the slots handed to the chain
    response            \* search_prompt: response

vars == <<env, prog, pc, vi, calls, outcome, nlaunch, chunks, enriched_chunks,
          chunk_ids, ingest_ret, write_args, reenriched, store, latest,
          user_question, eof, reads, out, ncalls, stages, sp_has,
          similarity_results, context, prompt, response>>

ingestVars == <<chunks, enriched_chunks, chunk_ids, ingest_ret, write_args, reenriched>>
storeVars  == <<store, latest>>
chatVars   == <<user_question, eof, reads, out, ncalls>>
spVars     == <<stages, sp_has, similarity_results, context, prompt, response>>
procVars   == <<env, prog, vi, nlaunch>>

(***************************************************************************)
(* Bounds of the model.                                                    *)
(***************************************************************************)
MaxMissing  == 1    \* configuration values missing from one environment
MaxLaunches == 3    \* scripts started in one behaviour
MaxChunks   == 2    \* chunks of a short document
LongLen     == 11   \* chunks of the long document
MaxInputs   == 2    \* lines typed into one chat session
MaxRanked   == 3    \* store sizes for which every similarity order is tried

(***************************************************************************)
(* Configuration.                                                          *)
(***************************************************************************)
REQUIRED_ENV_VARS ==
    <<"OPENAI_API_KEY", "OPENAI_EMBEDDING_MODEL", "DATABASE_URL",
      "PG_VECTOR_COLLECTION_NAME">>

\* Every variable the scripts read with os.getenv.
ConfigVars ==
    {"OPENAI_API_KEY", "OPENAI_EMBEDDING_MODEL", "DATABASE_URL",
     "PG_VECTOR_COLLECTION_NAME", "PDF_PATH"}

EnvUnset == [set |-> FALSE, val |-> ""]
EnvEmpty == [set |-> TRUE,  val |-> ""]
EnvGiven == [set |-> TRUE,  val |-> "x"]
EnvValues == {EnvUnset, EnvEmpty, EnvGiven}

\* `not os.getenv(v)`: the variable is unset, or set to the empty string.
GetenvFalsy(e, v) == ~e[v].set \/ e[v].val = ""

Envs == {e \in [ConfigVars -> EnvValues] :
            Cardinality({v \in ConfigVars : e[v] # EnvGiven}) <= MaxMissing}

Progs == {"ingest", "search", "chat"}

Running == [kind |-> "running", code |-> 0]

\* The exit status the interpreter gives the script.
ExitStatus(o) ==
    IF o.kind = "returned" THEN 0
    ELSE IF o.kind = "SystemExit" THEN o.code
    ELSE 1

(***************************************************************************)
(* Documents.                                                              *)
(***************************************************************************)
PyEmptyStr == "''"
PyNone     == "None"
MetaKeys   == {"page", "source"}
MetaValues == {PyEmptyStr, PyNone, "0", "'f.pdf'"}
Metas      == UNION {[D -> MetaValues] : D \in SUBSET MetaKeys}

Document(text, meta) == [page_content |-> text, metadata |-> meta]

\* The chunks short documents are made of.
PoolChunks ==
    {Document("sky", [page |-> "0", source |-> PyEmptyStr]),
     Document("is blue", [source |-> "'f.pdf'"])}

SeqsUpTo(S, n) == UNION {[1..k -> S] : k \in 0..n}

PoolSeq == <<Document("sky", [page |-> "0", source |-> PyEmptyStr]),
             Document("is blue", [source |-> "'f.pdf'"])>>

LongDoc == [j \in 1..LongLen |-> PoolSeq[(j % 2) + 1]]

\* What split_documents may return: nothing, a short document, the long one.
SplitOutputs == SeqsUpTo(PoolChunks, MaxChunks) \cup {LongDoc}

\* The inputs of the cleaning transform taken alone.
RichChunks == {Document(t, m) : t \in {"sky"}, m \in Metas}
RichInputs == SeqsUpTo(RichChunks, MaxChunks) \ {<<>>}

\* A variant that keeps the truthy values only (`if value`): 0 goes as well.
CleanTruthy(m) ==
    [k \in {k \in DOMAIN m : m[k] \notin {PyEmptyStr, PyNone, "0"}} |-> m[k]]
\* The dict comprehension of the enrichment: entries whose value is '' or None go.
CleanMetadata(m) ==
    [k \in {k \in DOMAIN m : m[k] \notin {PyEmptyStr, PyNone}} |-> m[k]]

EnrichChunks(cs) ==
    [j \in 1..Len(cs) |-> Document(cs[j].page_content, CleanMetadata(cs[j].metadata))]

\* str(i) for i >= 0.
Digit(d) == SubSeq("0123456789", d + 1, d + 1)
RECURSIVE Dec(_)
Dec(n) == IF n < 10 THEN Digit(n) ELSE Dec(n \div 10) \o Digit(n % 10)

ChunkId(i) == "doc-enriched-" \o Dec(i)

\* Variants: indices counted from 1, and indices formatted by their last digit.
ChunkIdsFromOne(n) == [j \in 1..n |-> ChunkId(j)]
ChunkIdsLastDigit(n) == [j \in 1..n |-> ChunkId((j - 1) % 10)]
\* [f"doc-enriched-{i}" for i in range(n)]
ChunkIds(n) == [j \in 1..n |-> ChunkId(j - 1)]

(***************************************************************************)
(* The vector store.                                                       *)
(***************************************************************************)
\* add_documents(documents, ids): one batched write, a record per identifier,
\* a record with the same identifier replaced.  The batch is one unit of work:
\* a call that raises has written nothing.
Upsert(st, documents, ids) ==
    [id \in DOMAIN st \cup {ids[j] : j \in 1..Len(ids)} |->
        IF \E j \in 1..Len(ids) : ids[j] = id
        THEN documents[CHOOSE j \in 1..Len(ids) :
                          ids[j] = id /\ \A l \in (j+1)..Len(ids) : ids[l] # id]
        ELSE st[id]]

\* History kept for the store's properties: index i -> the i-th chunk of the
\* most recent successful run that produced more than i chunks.  A successful
\* run with chunks es takes over the indices below Len(es) and leaves the rest.
Latest(lt, es) ==
    [i \in DOMAIN lt \cup 0..(Len(es) - 1) |->
        IF i < Len(es) THEN es[i + 1] ELSE lt[i]]

NoWrite == [called |-> FALSE, documents |-> <<>>, ids |-> <<>>]

(***************************************************************************)
(* Starting a script, and the checks both modules make when loaded.        *)
(***************************************************************************)
Init ==
    /\ env = [v \in ConfigVars |-> EnvGiven]
    /\ prog = "none"
    /\ pc = "idle"
    /\ vi = 1
    /\ calls = {}
    /\ outcome = Running
    /\ nlaunch = 0
    /\ chunks = <<>>
    /\ enriched_chunks = <<>>
    /\ chunk_ids = <<>>
    /\ ingest_ret = "unset"
    /\ write_args = NoWrite
    /\ reenriched = <<>>
    /\ store = <<>>
    /\ latest = <<>>
    /\ user_question = ""
    /\ eof = FALSE
    /\ reads = 0
    /\ out = "nothing"
    /\ ncalls = 0
    /\ stages = <<>>
    /\ sp_has = {}
    /\ similarity_results = <<>>
    /\ context = ""
    /\ prompt = [question |-> "", context |-> ""]
    /\ response = ""

\* A script ends: the interpreter exits with ExitStatus(o).
Exit(o) ==
    /\ pc' = "exited"
    /\ outcome' = o

\* `python ingest.py`, `python search.py` or `python chat.py` in some environment.
Launch(p) ==
    /\ pc \in {"idle", "exited"}
    /\ nlaunch < MaxLaunches
    /\ nlaunch' = nlaunch + 1
    /\ prog' = p
    /\ env' \in Envs
    /\ pc' = "validate"
    /\ vi' = 1
    /\ calls' = {}
    /\ outcome' = Running
    /\ chunks' = <<>>
    /\ enriched_chunks' = <<>>
    /\ chunk_ids' = <<>>
    /\ ingest_ret' = "unset"
    /\ write_args' = NoWrite
    /\ user_question' = ""
    /\ eof' = FALSE
    /\ reads' = 0
    /\ out' = "nothing"
    /\ ncalls' = 0
    /\ stages' = <<>>
    /\ sp_has' = {}
    /\ similarity_results' = <<>>
    /\ context' = ""
    /\ prompt' = [question |-> "", context |-> ""]
    /\ response' = ""
    /\ UNCHANGED <<reenriched, store, latest>>

\* for env_var in REQUIRED_ENV_VARS: if not os.getenv(env_var): raise RuntimeError
CheckEnvVar ==
    /\ pc = "validate"
    /\ vi <= Len(REQUIRED_ENV_VARS)
    /\ IF GetenvFalsy(env, REQUIRED_ENV_VARS[vi])
       THEN /\ Exit([kind |-> "RuntimeError", code |-> 0])
            /\ UNCHANGED vi
       ELSE /\ vi' = vi + 1
            /\ UNCHANGED <<pc, outcome>>
    /\ UNCHANGED <<env, prog, nlaunch, calls, ingestVars, storeVars, chatVars, spVars>>

\* The loop is over: PDF_PATH = os.getenv("PDF_PATH"), then the __main__ call.
StartMain ==
    /\ pc = "validate"
    /\ vi > Len(REQUIRED_ENV_VARS)
    /\ pc' = CASE prog = "ingest" -> "ingest_load"
               [] prog = "search" -> "sp_connect"
               [] OTHER           -> "chat_banner"
    /\ ncalls' = IF prog = "search" THEN 1 ELSE ncalls
    /\ UNCHANGED <<procVars, calls, outcome, ingestVars, storeVars,
                   user_question, eof, reads, out, spVars>>

(***************************************************************************)
(* ingest_pdf.                                                             *)
(***************************************************************************)
\* loader = PyPDFLoader(PDF_PATH); docs = loader.load()
IngestLoad ==
    /\ pc = "ingest_load"
    /\ calls' = calls \cup {"load"}
    /\ \/ Exit([kind |-> "Exception", code |-> 0])
       \/ /\ ~GetenvFalsy(env, "PDF_PATH")
          /\ pc' = "ingest_split"
          /\ UNCHANGED outcome
    /\ UNCHANGED <<procVars, ingestVars, storeVars, chatVars, spVars>>

\* chunks = splitter.split_documents(docs)
IngestSplit ==
    /\ pc = "ingest_split"
    /\ chunks' \in SplitOutputs
    /\ calls' = calls \cup {"split"}
    /\ pc' = "ingest_check"
    /\ UNCHANGED <<procVars, outcome, enriched_chunks, chunk_ids, ingest_ret,
                   write_args, reenriched, storeVars, chatVars, spVars>>

\* if not chunks: raise SystemExit(0)
IngestCheckEmpty ==
    /\ pc = "ingest_check"
    /\ IF chunks = <<>>
       THEN Exit([kind |-> "SystemExit", code |-> 0])
       ELSE pc' = "ingest_enrich" /\ UNCHANGED outcome
    /\ UNCHANGED <<procVars, calls, ingestVars, storeVars, chatVars, spVars>>

\* enriched_chunks = [Document(page_content=..., metadata={...}) for chunk in chunks]
IngestEnrich ==
    /\ pc = "ingest_enrich"
    /\ enriched_chunks' = EnrichChunks(chunks)
    /\ pc' = "ingest_ids"
    /\ UNCHANGED <<procVars, calls, outcome, chunks, chunk_ids, ingest_ret,
                   write_args, reenriched, storeVars, chatVars, spVars>>

\* chunk_ids = [f"doc-enriched-{i}" for i in range(len(enriched_chunks))]
IngestIds ==
    /\ pc = "ingest_ids"
    /\ chunk_ids' = ChunkIds(Len(enriched_chunks))
    /\ pc' = "ingest_connect"
    /\ UNCHANGED <<procVars, calls, outcome, chunks, enriched_chunks, ingest_ret,
                   write_args, reenriched, storeVars, chatVars, spVars>>

\* embeddings = OpenAIEmbeddings(...); vector_store = PGVector(...)
IngestConnect ==
    /\ pc = "ingest_connect"
    /\ calls' = calls \cup {"connect"}
    /\ \/ Exit([kind |-> "Exception", code |-> 0])
       \/ pc' = "ingest_write" /\ UNCHANGED outcome
    /\ UNCHANGED <<procVars, ingestVars, storeVars, chatVars, spVars>>

\* vector_store.add_documents(documents=enriched_chunks, ids=chunk_ids)
IngestWrite ==
    /\ pc = "ingest_write"
    /\ calls' = calls \cup {"add_documents"}
    /\ write_args' = [called |-> TRUE, documents |-> enriched_chunks, ids |-> chunk_ids]
    /\ \/ /\ Exit([kind |-> "Exception", code |-> 0])
          /\ UNCHANGED storeVars
       \/ /\ store' = Upsert(store, enriched_chunks, chunk_ids)
          /\ latest' = Latest(latest, enriched_chunks)
          /\ pc' = "ingest_return"
          /\ UNCHANGED outcome
    /\ UNCHANGED <<procVars, chunks, enriched_chunks, chunk_ids, ingest_ret,
                   reenriched, chatVars, spVars>>

\* return True
IngestReturn ==
    /\ pc = "ingest_return"
    /\ ingest_ret' = "True"
    /\ Exit([kind |-> "returned", code |-> 0])
    /\ UNCHANGED <<procVars, calls, chunks, enriched_chunks, chunk_ids,
                   write_args, reenriched, storeVars, chatVars, spVars>>

IngestNext ==
    \/ IngestLoad
    \/ IngestSplit
    \/ IngestCheckEmpty
    \/ IngestEnrich
    \/ IngestIds
    \/ IngestConnect
    \/ IngestWrite
    \/ IngestReturn

(***************************************************************************)
(* search_prompt.                                                          *)
(***************************************************************************)
RetrievalK == 10

Min(a, b) == IF a < b THEN a ELSE b

Perms(S) ==
    {f \in [1..Cardinality(S) -> S] :
        \A a, b \in 1..Cardinality(S) : a # b => f[a] # f[b]}

MaxIndex == LongLen + 1
IdIndex(id) == CHOOSE i \in 0..MaxIndex : ChunkId(i) = id

\* The identifiers of S by ascending and by descending index.
AscIds(S) ==
    LET I == {IdIndex(id) : id \in S}
    IN  [j \in 1..Cardinality(S) |->
            ChunkId(CHOOSE i \in I : Cardinality({x \in I : x < i}) = j - 1)]
DescIds(S) ==
    [j \in 1..Cardinality(S) |-> AscIds(S)[Cardinality(S) + 1 - j]]

\* The orders the store may rank its records in for a question.
Rankings(S) ==
    IF Cardinality(S) <= MaxRanked THEN Perms(S) ELSE {AscIds(S), DescIds(S)}

\* Distances grow along a result, by a step of 0 (all ties) or 1.
ScoreSteps == {0, 1}

\* similarity_search_with_score(question, k): the k nearest records, nearest
\* first, each with its score; fewer when the store holds fewer.
SimilaritySearch(st, k) ==
    {[j \in 1..Min(k, Cardinality(DOMAIN st)) |->
         [doc |-> st[r[j]], score |-> step * j]] :
       r \in Rankings(DOMAIN st), step \in ScoreSteps}

\* A variant that puts one line break between the parts.
RECURSIVE JoinNewline(_, _)
JoinNewline(sep, parts) ==
    IF parts = <<>> THEN ""
    ELSE IF Len(parts) = 1 THEN parts[1]
    ELSE parts[1] \o "\n" \o JoinNewline(sep, Tail(parts))
\* sep.join(parts)
RECURSIVE Join(_, _)
Join(sep, parts) ==
    IF parts = <<>> THEN ""
    ELSE IF Len(parts) = 1 THEN parts[1]
    ELSE parts[1] \o sep \o Join(sep, Tail(parts))

\* "\n\n".join([doc.page_content for doc, _ in similarity_results])
BuildContext(results) ==
    Join("\n\n", [j \in 1..Len(results) |-> results[j].doc.page_content])

NoPrompt == [question |-> "", context |-> ""]

\* The frame of search_prompt is gone: its locals with it.
DropFrame ==
    /\ sp_has' = {}
    /\ similarity_results' = <<>>
    /\ context' = ""
    /\ prompt' = NoPrompt
    /\ response' = ""

\* An exception leaves search_prompt: to the handler of chat main, or out of
\* the script when search.py is the script.
SpRaise ==
    /\ DropFrame
    /\ IF prog = "chat"
       THEN pc' = "chat_except" /\ UNCHANGED outcome
       ELSE Exit([kind |-> "Exception", code |-> 0])

\* embeddings = OpenAIEmbeddings(...); vector_store = PGVector(...)
SpConnect ==
    /\ pc = "sp_connect"
    /\ calls' = calls \cup {"connect"}
    /\ stages' = Append(stages, "connect")
    /\ \/ SpRaise
       \/ /\ pc' = "sp_retrieve"
          /\ UNCHANGED <<outcome, sp_has, similarity_results, context, prompt, response>>
    /\ UNCHANGED <<procVars, ingestVars, storeVars, chatVars>>

\* similarity_results = vector_store.similarity_search_with_score(user_question, k=10)
SpRetrieve ==
    /\ pc = "sp_retrieve"
    /\ calls' = calls \cup {"similarity_search"}
    /\ stages' = Append(stages, "retrieve")
    /\ \/ SpRaise
       \/ /\ similarity_results' \in SimilaritySearch(store, RetrievalK)
          /\ sp_has' = sp_has \cup {"similarity_results"}
          /\ pc' = "sp_assemble"
          /\ UNCHANGED <<outcome, context, prompt, response>>
    /\ UNCHANGED <<procVars, ingestVars, storeVars, chatVars>>

\* context = "\n\n".join(...); the template, the model and the chain are built
SpAssemble ==
    /\ pc = "sp_assemble"
    /\ stages' = Append(stages, "assemble")
    /\ \/ SpRaise
       \/ /\ context' = BuildContext(similarity_results)
          /\ sp_has' = sp_has \cup {"context"}
          /\ pc' = "sp_generate"
          /\ UNCHANGED <<outcome, similarity_results, prompt, response>>
    /\ UNCHANGED <<procVars, calls, ingestVars, storeVars, chatVars>>

\* A variant that invokes the chain again when the invocation fails.
SpGenerateRetry ==
    /\ pc = "sp_generate"
    /\ calls' = calls \cup {"llm"}
    /\ prompt' = [question |-> user_question, context |-> context]
    /\ stages' = Append(stages, "generate")
    /\ \/ /\ Len(stages) < 4
          /\ UNCHANGED <<pc, outcome, sp_has, similarity_results, context, response>>
       \/ /\ response' = "answer"
          /\ sp_has' = sp_has \cup {"response"}
          /\ pc' = "sp_return"
          /\ UNCHANGED <<outcome, similarity_results, context>>
    /\ UNCHANGED <<procVars, ingestVars, storeVars, chatVars>>
\* response = processing_chain.invoke({"question": user_question, "context": context})
SpGenerate ==
    /\ pc = "sp_generate"
    /\ calls' = calls \cup {"llm"}
    /\ stages' = Append(stages, "generate")
    /\ \/ SpRaise
       \/ /\ prompt' = [question |-> user_question, context |-> context]
          /\ response' = "answer"
          /\ sp_has' = sp_has \cup {"response"}
          /\ pc' = "sp_return"
          /\ UNCHANGED <<outcome, similarity_results, context>>
    /\ UNCHANGED <<procVars, ingestVars, storeVars, chatVars>>

\* return response: to chat main, or to the end of search.py
SpReturn ==
    /\ pc = "sp_return"
    /\ stages' = Append(stages, "return")
    /\ DropFrame
    /\ IF prog = "chat"
       THEN pc' = "chat_print" /\ UNCHANGED outcome
       ELSE Exit([kind |-> "returned", code |-> 0])
    /\ UNCHANGED <<procVars, calls, ingestVars, storeVars, chatVars>>

SearchNext ==
    \/ SpConnect
    \/ SpRetrieve
    \/ SpAssemble
    \/ SpGenerate
    \/ SpReturn

(***************************************************************************)
(* chat main.                                                              *)
(***************************************************************************)
Uppers == "ABCDEFGHIJKLMNOPQRSTUVWXYZ"
Lowers == "abcdefghijklmnopqrstuvwxyz"

Char(s, i) == SubSeq(s, i, i)

\* str.lower, on ASCII text
LowerChar(c) ==
    IF \E i \in 1..Len(Uppers) : Char(Uppers, i) = c
    THEN Char(Lowers, CHOOSE i \in 1..Len(Uppers) : Char(Uppers, i) = c)
    ELSE c
RECURSIVE Lower(_)
Lower(s) == IF s = "" THEN "" ELSE LowerChar(Char(s, 1)) \o Lower(SubSeq(s, 2, Len(s)))

\* str.strip
IsSpace(c) == c \in {" ", "\t"}
RECURSIVE LStrip(_)
LStrip(s) ==
    IF s = "" THEN ""
    ELSE IF IsSpace(Char(s, 1)) THEN LStrip(SubSeq(s, 2, Len(s))) ELSE s
RECURSIVE RStrip(_)
RStrip(s) ==
    IF s = "" THEN ""
    ELSE IF IsSpace(Char(s, Len(s))) THEN RStrip(SubSeq(s, 1, Len(s) - 1)) ELSE s
Strip(s) == RStrip(LStrip(s))

\* user_question.lower() in ('quit', 'exit', 'q', '')
IsExitCommand(q) == Lower(q) \in {"quit", "exit", "q", ""}

\* What may be typed at the prompt.
Lines == {"quit", " Quit ", "EXIT", "q", "", "  \t", "hi", " Quit now "}

\* The statements inside the try of the loop.
TryBody == {"chat_input", "chat_check", "chat_call", "sp_connect", "sp_retrieve",
            "sp_assemble", "sp_generate", "sp_return", "chat_print"}

\* The three print calls before the loop.
ChatBanner ==
    /\ pc = "chat_banner"
    /\ out' = "banner"
    /\ pc' = "chat_input"
    /\ UNCHANGED <<procVars, calls, outcome, ingestVars, storeVars,
                   user_question, eof, reads, ncalls, spVars>>

\* user_question = input("\nAsk your question: ").strip(), a line being typed
ChatReadLine ==
    /\ pc = "chat_input"
    /\ ~eof
    /\ reads < MaxInputs
    /\ \E line \in Lines : user_question' = Strip(line)
    /\ reads' = reads + 1
    /\ ncalls' = 0
    /\ stages' = <<>>
    /\ pc' = "chat_check"
    /\ UNCHANGED <<procVars, calls, outcome, ingestVars, storeVars, eof, out,
                   sp_has, similarity_results, context, prompt, response>>

\* input() at the end of standard input: EOFError, an Exception
ChatReadEof ==
    /\ pc = "chat_input"
    /\ eof' = TRUE
    /\ pc' = "chat_except"
    /\ UNCHANGED <<procVars, calls, outcome, ingestVars, storeVars,
                   user_question, reads, out, ncalls, spVars>>

\* if user_question.lower() in (...): print goodbye; break
ChatCheckExit ==
    /\ pc = "chat_check"
    /\ IF IsExitCommand(user_question)
       THEN /\ out' = "goodbye"
            /\ Exit([kind |-> "returned", code |-> 0])
       ELSE /\ out' = "processing"
            /\ pc' = "chat_call"
            /\ UNCHANGED outcome
    /\ UNCHANGED <<procVars, calls, ingestVars, storeVars, user_question, eof,
                   reads, ncalls, spVars>>

\* response = search_prompt(user_question): the call
ChatCallSearch ==
    /\ pc = "chat_call"
    /\ ncalls' = ncalls + 1
    /\ pc' = "sp_connect"
    /\ UNCHANGED <<procVars, calls, outcome, ingestVars, storeVars,
                   user_question, eof, reads, out, spVars>>

\* print(f"\nANSWER: {response.content}")
ChatPrint ==
    /\ pc = "chat_print"
    /\ out' = "answer"
    /\ pc' = "chat_input"
    /\ UNCHANGED <<procVars, calls, outcome, ingestVars, storeVars,
                   user_question, eof, reads, ncalls, spVars>>

\* except KeyboardInterrupt: print goodbye; break
ChatInterrupt ==
    /\ prog = "chat"
    /\ pc \in TryBody
    /\ out' = "goodbye"
    /\ DropFrame
    /\ Exit([kind |-> "returned", code |-> 0])
    /\ UNCHANGED <<procVars, calls, ingestVars, storeVars, user_question, eof,
                   reads, ncalls, stages>>

\* A variant whose handler leaves the loop.
ChatExceptBreaks ==
    /\ pc = "chat_except"
    /\ out' = "error"
    /\ Exit([kind |-> "returned", code |-> 0])
    /\ UNCHANGED <<procVars, calls, ingestVars, storeVars, user_question, eof,
                   reads, ncalls, spVars>>
\* except Exception as e: print the error and the hint; the loop goes on
ChatExcept ==
    /\ pc = "chat_except"
    /\ out' = "error"
    /\ pc' = "chat_input"
    /\ UNCHANGED <<procVars, calls, outcome, ingestVars, storeVars,
                   user_question, eof, reads, ncalls, spVars>>

ChatNext ==
    \/ ChatBanner
    \/ ChatReadLine
    \/ ChatReadEof
    \/ ChatCheckExit
    \/ ChatCallSearch
    \/ ChatPrint
    \/ ChatInterrupt
    \/ ChatExcept

Next ==
    \/ \E p \in Progs : Launch(p)
    \/ CheckEnvVar
    \/ StartMain
    \/ IngestNext
    \/ SearchNext
    \/ ChatNext

Spec == Init /\ [][Next]_vars

(***************************************************************************)
(* The cleaning transform on its own: ingest_pdf stands at the enrichment  *)
(* with any chunks, enriches them, and the transform is applied once more. *)
(***************************************************************************)
InitEnrich ==
    /\ env = [v \in ConfigVars |-> EnvGiven]
    /\ prog = "ingest"
    /\ pc = "ingest_enrich"
    /\ vi = Len(REQUIRED_ENV_VARS) + 1
    /\ calls = {"load", "split"}
    /\ outcome = Running
    /\ nlaunch = 1
    /\ chunks \in RichInputs
    /\ enriched_chunks = <<>>
    /\ chunk_ids = <<>>
    /\ ingest_ret = "unset"
    /\ write_args = NoWrite
    /\ reenriched = <<>>
    /\ store = <<>>
    /\ latest = <<>>
    /\ user_question = ""
    /\ eof = FALSE
    /\ reads = 0
    /\ out = "nothing"
    /\ ncalls = 0
    /\ stages = <<>>
    /\ sp_has = {}
    /\ similarity_results = <<>>
    /\ context = ""
    /\ prompt = NoPrompt
    /\ response = ""

\* The comprehension of the enrichment, over its own result.
EnrichAgain ==
    /\ pc = "ingest_ids"
    /\ reenriched' = EnrichChunks(enriched_chunks)
    /\ pc' = "enrich_again"
    /\ UNCHANGED <<procVars, calls, outcome, chunks, enriched_chunks, chunk_ids,
                   ingest_ret, write_args, storeVars, chatVars, spVars>>

NextEnrich ==
    \/ IngestEnrich
    \/ EnrichAgain

SpecEnrich == InitEnrich /\ [][NextEnrich]_vars

(***************************************************************************)
(* Properties.                                                             *)
(***************************************************************************)
IngestRunning == prog = "ingest" /\ pc \notin {"idle", "validate"}

SplitWasEmpty == IngestRunning /\ "split" \in calls /\ chunks = <<>>

\* The status a run that wrote its chunks and returned True ends with.
SuccessStatus == ExitStatus([kind |-> "returned", code |-> 0])

\* C1: when the split yields no chunk, add_documents is never called in that
\* run, and the run ends in a way a caller can tell from a successful
\* ingestion: it does not return True, and it does not end with the outcome
\* or the exit status of a run that wrote chunks.
C1_ZeroChunksEndDistinctly ==
    SplitWasEmpty =>
        /\ "add_documents" \notin calls
        /\ ~write_args.called
        /\ ingest_ret # "True"
        /\ pc = "exited" =>
              /\ outcome.kind # "returned"
              /\ ExitStatus(outcome) # SuccessStatus

\* The part of C1 the code does keep: no write, no True, a SystemExit raised.
C1_ZeroChunksNoWrite ==
    SplitWasEmpty =>
        /\ "add_documents" \notin calls
        /\ ~write_args.called
        /\ ingest_ret # "True"
        /\ pc = "exited" => outcome.kind = "SystemExit"

C1_ZeroChunksExit == SplitWasEmpty /\ pc = "exited"

\* C2: if any of the five configuration values is absent when a script
\* starts, the script aborts with the configuration error before any pipeline
\* call: no load, no embedding, no store call, no model call.
C2_MissingConfigAborts ==
    \A v \in ConfigVars :
        (prog \in Progs /\ ~env[v].set) =>
            /\ calls = {}
            /\ pc = "exited" => outcome.kind = "RuntimeError"

\* The part of C2 the code does keep: the four validated values.
C2_MissingValidatedAborts ==
    \A j \in 1..Len(REQUIRED_ENV_VARS) :
        (prog \in Progs /\ ~env[REQUIRED_ENV_VARS[j]].set) =>
            /\ calls = {}
            /\ pc \in {"validate", "exited"}
            /\ pc = "exited" => outcome.kind = "RuntimeError"

SpPcs == {"sp_connect", "sp_retrieve", "sp_assemble", "sp_generate", "sp_return"}

\* C3: an exception raised by search_prompt for one question is caught at the
\* loop of chat main, the error is displayed, and the session goes on: the
\* loop is back at the input prompt.  Only an interrupt, which prints the
\* goodbye, ends the session while a question is being answered.
C3_QueryErrorKeepsSession ==
    [][ /\ (prog = "chat" /\ pc \in SpPcs /\ pc' \notin SpPcs \cup {"chat_print"})
            => \/ pc' = "chat_except" /\ outcome' = Running
               \/ pc' = "exited" /\ out' = "goodbye"
        /\ pc = "chat_except"
            => pc' = "chat_input" /\ out' = "error" /\ outcome' = Running
      ]_vars

\* A question was read after the error of a failed query was displayed.
C3_NextQuestionAfterError ==
    /\ prog = "chat"
    /\ pc = "chat_check"
    /\ reads = 2
    /\ out = "error"
    /\ Len(stages) = 0
    /\ "similarity_search" \in calls
    /\ user_question = "hi"

\* C4: in a run with N >= 1 chunks the identifiers handed to add_documents are
\* exactly doc-enriched-0 ... doc-enriched-(N-1): one per chunk, pairwise
\* distinct, doc-enriched-i with the i-th chunk in the splitter's order.
C4_ChunkIdsSequential ==
    write_args.called =>
        LET ids == write_args.ids
            ds  == write_args.documents
            N   == Len(chunks)
        IN  /\ N >= 1
            /\ Len(ids) = N
            /\ Len(ds) = N
            /\ \A j \in 1..N :
                  /\ ids[j] = "doc-enriched-" \o ToString(j - 1)
                  /\ ds[j].page_content = chunks[j].page_content
                  /\ \A k \in DOMAIN ds[j].metadata :
                        /\ k \in DOMAIN chunks[j].metadata
                        /\ ds[j].metadata[k] = chunks[j].metadata[k]
            /\ \A a, b \in 1..N : a # b => ids[a] # ids[b]

\* The long document was written: identifiers of one and of two digits.
C4_LongRunWritten ==
    /\ write_args.called
    /\ Len(write_args.ids) = LongLen
    /\ pc = "ingest_return"

\* C5: the cleaning transform keeps each chunk's text, keeps exactly the
\* metadata entries whose value is neither '' nor None, leaves the original
\* chunks as they were, and changes nothing when applied to its own result.
C5_EnrichState ==
    /\ pc \in {"ingest_ids", "enrich_again"} =>
          /\ Len(enriched_chunks) = Len(chunks)
          /\ \A j \in 1..Len(chunks) :
                LET m == chunks[j].metadata
                    e == enriched_chunks[j].metadata
                IN  /\ enriched_chunks[j].page_content = chunks[j].page_content
                    /\ DOMAIN e = {k \in DOMAIN m : m[k] # "''" /\ m[k] # "None"}
                    /\ \A k \in DOMAIN e : e[k] = m[k]
    /\ pc = "enrich_again" => reenriched = enriched_chunks

C5_EnrichPureIdempotent == []C5_EnrichState /\ [][chunks' = chunks]_vars

\* Two chunks went through both passes: one without metadata, one that lost
\* an entry and kept the page number 0.
C5_EnrichedTwice ==
    /\ pc = "enrich_again"
    /\ Len(chunks) = 2
    /\ chunks[1].metadata = <<>>
    /\ DOMAIN chunks[2].metadata = {"page", "source"}
    /\ chunks[2].metadata["page"] = "0"
    /\ chunks[2].metadata["source"] = "None"
    /\ DOMAIN reenriched[2].metadata = {"page"}

\* Where the j-th text starts in the context block.
RECURSIVE CtxStart(_, _)
CtxStart(results, j) ==
    IF j = 1 THEN 1
    ELSE CtxStart(results, j - 1) + Len(results[j - 1].doc.page_content) + 2

\* C6: the context block is the texts of the results in result order, a
\* blank line between consecutive texts and nothing else, whatever the
\* scores; with no result it is empty, and the query goes on to generation.
C6_ContextState ==
    "context" \in sp_has =>
        LET rs == similarity_results
            n  == Len(rs)
        IN  /\ n = 0 => context = ""
            /\ n > 0 =>
                  Len(context) = CtxStart(rs, n) + Len(rs[n].doc.page_content) - 1
            /\ \A j \in 1..n :
                  LET t == rs[j].doc.page_content
                      a == CtxStart(rs, j)
                  IN  /\ SubSeq(context, a, a + Len(t) - 1) = t
                      /\ j < n => SubSeq(context, a + Len(t), a + Len(t) + 1) = "\n\n"
            /\ (n = 2 /\ rs[1].doc.page_content = "sky"
                      /\ rs[2].doc.page_content = "is blue")
                  => context = "sky\n\nis blue"
            /\ "response" \in sp_has => prompt.context = context

C6_ContextAssembly ==
    /\ []C6_ContextState
    /\ [](pc = "sp_return" => "llm" \in calls /\ prompt.context = context)
    /\ [][(pc = "sp_assemble" /\ similarity_results = <<>>)
              => /\ pc' \in {"sp_generate", "chat_except", "exited"}
                 /\ pc' = "sp_generate" => context' = ""]_vars

\* Two different texts with different scores were joined and sent on.
C6_TwoTextsJoined ==
    /\ pc = "sp_return"
    /\ Len(similarity_results) = 2
    /\ similarity_results[1].doc.page_content = "is blue"
    /\ similarity_results[2].doc.page_content = "sky"
    /\ similarity_results[1].score # similarity_results[2].score
    /\ prompt.context = "is blue\n\nsky"

\* C8: no record is ever removed from the store, a query leaves the store as
\* it is, and the record under doc-enriched-i is the i-th chunk of the most
\* recent successful ingestion run that produced more than i chunks.
C8_StoreState ==
    /\ \A i \in 0..MaxIndex :
          LET id == "doc-enriched-" \o ToString(i)
          IN  /\ (i \in DOMAIN latest) <=> (id \in DOMAIN store)
              /\ i \in DOMAIN latest => store[id] = latest[i]
    /\ DOMAIN store \subseteq {"doc-enriched-" \o ToString(i) : i \in 0..MaxIndex}

C8_StoreGrowsByLatestRun ==
    /\ []C8_StoreState
    /\ [][ /\ DOMAIN store \subseteq DOMAIN store'
           /\ (prog \in {"search", "chat"} /\ pc \notin {"idle", "exited"})
                 => store' = store
         ]_vars

\* A shorter run overwrote the first record of the long run, whose other
\* records are still there, and a query then read the store.
C8_ShortAfterLong ==
    /\ prog = "chat"
    /\ pc = "sp_return"
    /\ Cardinality(DOMAIN store) = LongLen
    /\ store["doc-enriched-0"].page_content = "sky"
    /\ store["doc-enriched-1"].page_content = "sky"
    /\ store["doc-enriched-2"].page_content = "is blue"

StageOrder == <<"connect", "retrieve", "assemble", "generate", "return">>

IsPrefix(s, t) == Len(s) <= Len(t) /\ \A j \in 1..Len(s) : s[j] = t[j]

\* The stage search_prompt runs at each of its statements.
StageAt(p) ==
    CASE p = "sp_connect"  -> 1
      [] p = "sp_retrieve" -> 2
      [] p = "sp_assemble" -> 3
      [] p = "sp_generate" -> 4
      [] p = "sp_return"   -> 5

\* C9: a question that is no exit command invokes search_prompt exactly once;
\* inside it the stages run at most once each, in the order retrieve,
\* assemble, generate, return; a stage that fails is not run again and no
\* later stage runs; an invocation starts with none of its locals bound, so
\* nothing of an earlier question is used again.
C9_QueryState ==
    /\ IsPrefix(stages, StageOrder)
    /\ ncalls <= 1
    /\ pc \in SpPcs =>
          /\ ncalls = 1
          /\ Len(stages) = StageAt(pc) - 1
    /\ pc \in {"sp_connect", "sp_retrieve"} =>
          /\ sp_has = {}
          /\ similarity_results = <<>>
          /\ context = ""
          /\ prompt = NoPrompt
          /\ response = ""
    /\ "similarity_results" \in sp_has => Len(similarity_results) <= 10
    /\ pc = "sp_return" =>
          /\ sp_has = {"similarity_results", "context", "response"}
          /\ prompt.question = user_question
    /\ pc = "chat_print" => ncalls = 1 /\ stages = StageOrder
    /\ (pc = "chat_except" /\ ~eof) =>
          ncalls = 1 /\ Len(stages) \in 1..4
    /\ pc = "chat_call" => ncalls = 0 /\ stages = <<>>

C9_LinearQuery ==
    /\ []C9_QueryState
    /\ [][ \/ stages' = stages
           \/ stages' = <<>> /\ pc \notin SpPcs
           \/ /\ pc \in SpPcs
              /\ stages' = Append(stages, StageOrder[StageAt(pc)])
              /\ pc' \notin SpPcs \/ StageAt(pc') = StageAt(pc) + 1
         ]_vars

\* The second question of a session failed at generation, after one
\* retrieval and one assembly.
C9_SecondQueryFailed ==
    /\ prog = "chat"
    /\ pc = "chat_except"
    /\ reads = 2
    /\ ncalls = 1
    /\ stages = <<"connect", "retrieve", "assemble", "generate">>
    /\ "llm" \in calls

\* C10: the loop of chat main ends for every finite input: on a line that,
\* trimmed and lower-cased, is 'quit', 'exit', 'q' or empty, without
\* search_prompt being called for it; and when standard input is exhausted,
\* instead of going round forever.
C10_ChatLoopEnds ==
    [][ /\ (pc = "chat_check" /\ Lower(user_question) \in {"quit", "exit", "q", ""})
            => pc' = "exited" /\ ncalls' = 0
        /\ (prog = "chat" /\ pc = "chat_input" /\ eof)
            => pc' = "exited"
      ]_vars

\* The part of C10 the code does keep: the exit commands end the loop.
C10_ExitCommandsEnd ==
    [][ (pc = "chat_check" /\ Lower(user_question) \in {"quit", "exit", "q", ""})
            => pc' = "exited" /\ ncalls' = 0 /\ out' = "goodbye"
      ]_vars
====
